---------------------------- MODULE Spec2Model ----------------------------
(***************************************************************************)
(* System package updates of moonraker's update manager                    *)
(* (components/update_manager/system_deploy.py): the PackageDeploy         *)
(* coordinator, the BasePackageProvider used when no package manager was   *)
(* detected, and the AptCliProvider.                                       *)
(*                                                                         *)
(* A coroutine is modelled from one suspension point (an awaited shell     *)
(* command) to the next: an action resumes the coroutine with the outcome  *)
(* of the command it waits for and runs it up to the next command it       *)
(* issues, or to its end.  Text (command output, package names) is a       *)
(* sequence of one-character strings.                                      *)
(***************************************************************************)
EXTENDS Integers, Sequences, FiniteSets, TLC

VARIABLES
    phase,               \* "constructed" | "ready": PackageDeploy.initialize has run
    provider,            \* self.provider: "unset" | "base" | "apt"
    available_packages,  \* self.available_packages
    last_refresh_time,   \* self.last_refresh_time (BaseDeploy)
    db,                  \* the persisted storage of the "system" updater
    now,                 \* time.time(), whole seconds
    running,             \* self.server.is_running()
    pc,                  \* per coroutine: the command it is suspended on
    res,                 \* per coroutine: how its last call ended
    prev,                \* <<op, result>> of the call that ended before the current one
    loc,                 \* locals of install_packages / _update_package_cache
    trace,               \* commands issued, notifications, saves of the current call
    status,              \* payload returned by the last get_update_status
    pcall,               \* last operation called on the BasePackageProvider
    warnings,            \* number of server.add_warning calls
    detect,              \* what _get_fallback_provider did: probes run, their outcome
    before,              \* available_packages, storage, last_refresh_time and
                         \* is_running() when the current call began
    parse                \* an output given to one of the provider's parsers, and
                         \* the names the parser returned

vars == <<phase, provider, available_packages, last_refresh_time, db, now,
          running, pc, res, prev, loc, trace, status, pcall, warnings, detect,
                   before, parse>>

----------------------------------------------------------------------------
(* Bounds of the model *)

\* Largest clock value
MaxNow == 3701
\* Largest value of the 'retries' option passed to install_packages
MaxRetries == 2
\* Largest number of header lines in an output given to get_packages
MaxHeaders == 3
\* Largest number of package lines in an output given to a parser
MaxEntries == 2

(* Program constants *)

\* _update_package_cache: seconds between two non-forced index refreshes
RefreshInterval == 3600
\* AptCliProvider.install_packages: kwargs.get('retries', 3)
DefaultRetries == 3
\* AptCliProvider.get_packages: pkg_list[2:]
HeaderLines == 2

----------------------------------------------------------------------------
(* Text *)

NL == "\n"
Whitespace == {" ", NL}

Min(S) == CHOOSE x \in S : \A y \in S : x <= y
Max(S) == CHOOSE x \in S : \A y \in S : x >= y

\* Index of the first element of s that is in the set cs, 0 when there is none
FirstIdx(s, cs) ==
    LET idx == {i \in 1..Len(s) : s[i] \in cs}
    IN  IF idx = {} THEN 0 ELSE Min(idx)

\* str.strip()
Strip(s) ==
    LET idx == {i \in 1..Len(s) : s[i] \notin Whitespace}
    IN  IF idx = {} THEN <<>> ELSE SubSeq(s, Min(idx), Max(idx))

\* str.split(sep): the pieces between the occurrences of sep, empty ones kept
RECURSIVE Split(_, _)
Split(s, sep) ==
    LET i == FirstIdx(s, {sep})
    IN  IF i = 0 THEN <<s>>
        ELSE <<SubSeq(s, 1, i - 1)>> \o Split(SubSeq(s, i + 1, Len(s)), sep)

\* [p.strip() for p in res.split("\n") if p.strip()]
StrippedLines(text) ==
    LET lines == Split(text, NL)
        stripped == [i \in 1..Len(lines) |-> Strip(lines[i])]
    IN  SelectSeq(stripped, LAMBDA p : p # <<>>)

\* p.split("/", maxsplit=1)[0]
BeforeSlash(p) ==
    LET i == FirstIdx(p, {"/"})
    IN  IF i = 0 THEN p ELSE SubSeq(p, 1, i - 1)

\* pkg.strip().split()[0], for a stripped non-empty line
FirstToken(p) ==
    LET i == FirstIdx(p, Whitespace)
    IN  IF i = 0 THEN p ELSE SubSeq(p, 1, i - 1)

\* get_packages that keeps the blank lines of the output
ParseUpgradable_BlankLinesKept(text) ==
    LET pkg_list == Split(text, NL)
        entries == SubSeq(pkg_list, HeaderLines + 1, Len(pkg_list))
    IN  IF pkg_list # <<>>
        THEN [i \in 1..Len(entries) |-> BeforeSlash(entries[i])]
        ELSE <<>>

\* AptCliProvider.get_packages: the names in the output of the list query
ParseUpgradable(text) ==
    LET pkg_list == StrippedLines(text)
        entries == SubSeq(pkg_list, HeaderLines + 1, Len(pkg_list))
    IN  IF pkg_list # <<>>
        THEN [i \in 1..Len(entries) |-> BeforeSlash(entries[i])]
        ELSE <<>>

\* resolve_packages that returns the names in the order of the search output
ResolveNames_SearchOrder(package_list, ret) ==
    LET found == StrippedLines(ret)
        resolved == [i \in 1..Len(found) |-> FirstToken(found[i])]
    IN  SelectSeq(resolved, LAMBDA r : \E i \in 1..Len(package_list) : package_list[i] = r)

\* AptCliProvider.resolve_packages: the requested names the search reported
ResolveNames(package_list, ret) ==
    LET found == StrippedLines(ret)
        resolved == {FirstToken(found[i]) : i \in 1..Len(found)}
    IN  SelectSeq(package_list, LAMBDA avail : avail \in resolved)

----------------------------------------------------------------------------
(* Inputs: package names, command outputs, options *)

PkgX == <<"x">>
PkgY == <<"y">>
PkgZ == <<"z", "2">>

\* The lines joined by newlines, each line ended by one
RECURSIVE Join(_)
Join(lines) ==
    IF lines = <<>> THEN <<>> ELSE Head(lines) \o <<NL>> \o Join(Tail(lines))

\* A line of "apt list --upgradable": name/suite version
Entry(name) == name \o <<"/", "s", " ", "1">>
\* A line of "apt-cache search --names-only": name - description
Found(name) == name \o <<" ", "-", " ", "d">>

\* Outputs of "apt list --upgradable" (res of get_packages)
ListOutputs ==
    { Join(<<<<"L", ".">>, <<"W">>, Entry(PkgX), Entry(PkgY)>>),
      Join(<<<<"L", ".">>, <<>>, <<"W">>, <<" ">> \o Entry(PkgY), <<" ">>>>),
      Join(<<<<"L", ".">>>>),
      <<>> }

\* Outputs of "apt-cache search" (ret of resolve_packages)
SearchOutputs ==
    { Join(<<Found(PkgX), Found(PkgY)>>),
      Join(<<Found(PkgZ)>>),
      <<>> }

\* package_list arguments of install_packages
PackageLists == { <<PkgY, PkgX>>, <<PkgX, PkgZ>> }

\* The sequences of at most n elements of S
SeqsUpTo(S, n) == UNION {[1..k -> S] : k \in 0..n}

PkgNames == {PkgX, PkgY, PkgZ}

\* The i-th header line of "apt list --upgradable"
Header(i) == IF i = 1 THEN <<"L", ".">> ELSE <<"W">>

\* How the lines of an output are laid out: as they are, each followed by a
\* blank line, or each between spaces
Layouts == {"plain", "blank", "padded"}
LaidOut(lines, layout) ==
    CASE layout = "plain"  -> lines
      [] layout = "blank"  -> [i \in 1..(2 * Len(lines)) |->
                                 IF i % 2 = 1 THEN lines[(i + 1) \div 2] ELSE <<" ">>]
      [] layout = "padded" -> [i \in 1..Len(lines) |-> <<" ">> \o lines[i] \o <<" ">>]

\* An output of "apt list --upgradable": n header lines, then one line per name
UpgradableOutput(n, names, layout) ==
    Join(LaidOut([i \in 1..n |-> Header(i)]
                 \o [i \in 1..Len(names) |-> Entry(names[i])], layout))

\* An output of "apt-cache search": one line per name
SearchOutput(names, layout) ==
    Join(LaidOut([i \in 1..Len(names) |-> Found(names[i])], layout))

\* kwargs.get(key, default)
KwGet(kwargs, key, default) ==
    IF key \in DOMAIN kwargs THEN kwargs[key] ELSE default

\* No keyword argument given
NoKwargs == [k \in {} |-> TRUE]

\* **kwargs of install_packages
KwargsSet ==
    { NoKwargs } \cup { [retries |-> n, notify |-> (n = 1)] : n \in 1..MaxRetries }

\* What the storage holds for the "system" updater when the service starts
StoredBlobs ==
    { [has_packages |-> FALSE, packages |-> <<>>, last_refresh_time |-> 0],
      [has_packages |-> TRUE, packages |-> <<PkgX, PkgY>>, last_refresh_time |-> 100],
      [has_packages |-> TRUE, packages |-> <<>>, last_refresh_time |-> 100] }

----------------------------------------------------------------------------
(* Events recorded in trace *)

CmdEv(what, notify) == [ev |-> "cmd", what |-> what, flag |-> notify]
NotifyEv(msg, is_complete) == [ev |-> "notify", what |-> msg, flag |-> is_complete]
SaveEv == [ev |-> "save", what |-> "state", flag |-> FALSE]
DoneEv(what, ok) == [ev |-> "done", what |-> what, flag |-> ok]
RaiseEv(op) == [ev |-> "raise", what |-> op, flag |-> FALSE]
LogExcEv == [ev |-> "log_exc", what |-> "Error Refreshing System Packages", flag |-> FALSE]

IsCmd(e) == e.ev = "cmd"
Cmds(tr) == SelectSeq(tr, IsCmd)
CmdsOf(tr, what) == SelectSeq(tr, LAMBDA e : e.ev = "cmd" /\ e.what = what)
Notifications(tr) == SelectSeq(tr, LAMBDA e : e.ev = "notify")
Saves(tr) == SelectSeq(tr, LAMBDA e : e.ev = "save")
\* A command of tr ended in failure, or a provider operation raised at once
Failed(tr) ==
    \E i \in 1..Len(tr) : tr[i].ev = "raise" \/ (tr[i].ev = "done" /\ ~tr[i].flag)
\* The command what of tr ended, and ended as ok says
Ended(tr, what, ok) == \E i \in 1..Len(tr) : tr[i] = DoneEv(what, ok)

----------------------------------------------------------------------------
(* Providers *)

ProviderOps ==
    {"initialize", "refresh_packages", "get_packages", "install_packages",
     "upgrade_system"}

\* BasePackageProvider whose get_packages returns an empty list instead of raising
BaseProviderOp_ListOk(op) ==
    [outcome |-> IF op \in {"initialize", "get_packages"} THEN "ok" ELSE "error",
     cmds |-> <<>>]

\* BasePackageProvider: how each operation ends and the commands it runs
BaseProviderOp(op) ==
    [outcome |-> IF op = "initialize" THEN "ok" ELSE "error", cmds |-> <<>>]

\* A BasePackageProvider whose operations run the commands instead of raising
Raises_Never(op) == FALSE

\* A call of op on the active provider raises before it runs any command
Raises(op) == provider # "apt" /\ BaseProviderOp(op).outcome = "error"

\* AptCliProvider: the command an operation runs
AptCommand(op, notify) ==
    CASE op = "refresh_packages" -> CmdEv("apt-get update", notify)
      [] op = "get_packages"     -> CmdEv("apt list --upgradable", FALSE)
      [] op = "resolve_packages" -> CmdEv("apt-cache search", FALSE)
      [] op = "install_packages" -> CmdEv("apt-get install", notify)
      [] op = "upgrade_system"   -> CmdEv("apt-get upgrade", TRUE)

\* CommandHelper.run_cmd after a failed attempt: TRUE when it runs the command again
RunAgain(tries, attempts) == tries < attempts

----------------------------------------------------------------------------
(* Coordinator helpers *)

Ops == {"refresh", "update", "install", "cache"}
Idle == \A o \in Ops : pc[o] = "idle"
NoRes == [o \in Ops |-> "none"]
NoLoc == [package_list |-> <<>>, kwargs |-> NoKwargs, resolved |-> <<>>,
          attempts |-> 0, tries |-> 0,
          notify |-> FALSE, force |-> FALSE, curtime |-> 0]
NoStatus == [valid |-> FALSE, package_count |-> 0, package_list |-> <<>>]
NoCall == [op |-> "none", outcome |-> "none"]
\* No output is given to a parser
NoParse == [fn |-> "none", done |-> FALSE, text |-> <<>>, headers |-> 0,
            names |-> <<>>, package_list |-> <<>>, result |-> <<>>]

\* The outputs given to get_packages and, with a package_list, to resolve_packages
ParseInputs ==
    { [NoParse EXCEPT !.fn = "get_packages", !.headers = n, !.names = names,
                      !.text = UpgradableOutput(n, names, layout)] :
        n \in 0..MaxHeaders, names \in SeqsUpTo(PkgNames, MaxEntries),
        layout \in Layouts }
    \cup
    { [NoParse EXCEPT !.fn = "resolve_packages", !.names = names,
                      !.package_list = package_list,
                      !.text = SearchOutput(names, layout)] :
        names \in SeqsUpTo(PkgNames, MaxEntries),
        package_list \in SeqsUpTo(PkgNames, MaxEntries), layout \in Layouts }

\* The call that ended last, as <<op, result>>
LastCall ==
    IF \E o \in Ops : res[o] # "none"
    THEN LET o == CHOOSE o \in Ops : res[o] # "none" IN <<o, res[o]>>
    ELSE <<"none", "none">>

\* get_persistent_data that does not add the list to the storage
GetPersistentData_ListLeftOut(storage, packages) == storage

\* PackageDeploy.get_persistent_data
GetPersistentData(storage, packages) ==
    [storage EXCEPT !.has_packages = TRUE, !.packages = packages]

\* BaseDeploy._save_state: the storage after the save
SaveState(packages) == GetPersistentData(db, packages)

\* _update_package_cache comparing with >= instead of >
NeedsIndexRefresh_Ge(force, curtime, last) ==
    force \/ curtime >= last + RefreshInterval

\* PackageDeploy._update_package_cache: whether the index is refreshed
NeedsIndexRefresh(force, curtime, last) ==
    force \/ curtime > last + RefreshInterval

\* refresh that leaves the index refresh to the 3600 s throttle
RefreshForce_Throttled == FALSE
\* update that leaves the index refresh to the 3600 s throttle
UpdateForce_Throttled == FALSE

\* refresh: the force argument of its _update_package_cache call
RefreshForce == TRUE
\* update: the force argument of its _update_package_cache call
UpdateForce == TRUE

\* last_refresh_time after an index refresh that ended ok or not
LastRefreshAfter(ok) == IF ok THEN now ELSE last_refresh_time

\* PackageDeploy.get_update_status
GetUpdateStatus ==
    [valid |-> TRUE,
     package_count |-> Len(available_packages),
     package_list |-> available_packages]

----------------------------------------------------------------------------
(* Start-up *)

\* The coordinator after PackageDeploy.__init__, before initialize
Constructed ==
    /\ phase = "constructed"
    /\ provider = "unset"
    /\ available_packages = <<>>
    /\ last_refresh_time = 0
    /\ db \in StoredBlobs
    /\ now = RefreshInterval + 99
    /\ running = FALSE
    /\ pc = [o \in Ops |-> "idle"]
    /\ res = NoRes
    /\ prev = <<"none", "none">>
    /\ loc = NoLoc
    /\ trace = <<>>
    /\ status = NoStatus
    /\ pcall = NoCall
    /\ warnings = 0
    /\ detect = [probes |-> 0, probe_ok |-> FALSE, init_ok |-> FALSE]
    /\ before = [packages |-> <<>>, db |-> db, last_refresh_time |-> 0,
                 running |-> FALSE]

Init == Constructed /\ parse = NoParse

\* _get_fallback_provider that does not catch the failed probe's outcome
GetFallbackProvider_IgnoreProbe(probe_ok) ==
    IF BaseProviderOp("initialize").outcome = "ok" THEN "apt" ELSE "none"

\* PackageDeploy._get_fallback_provider, given how the probe ended
GetFallbackProvider(probe_ok) ==
    IF ~probe_ok THEN "none"
    ELSE IF BaseProviderOp("initialize").outcome = "ok" THEN "apt" ELSE "none"

\* PackageDeploy.initialize
Initialize ==
    /\ phase = "constructed"
    /\ \E probe_ok \in BOOLEAN :
          LET fallback == GetFallbackProvider(probe_ok)
          IN  /\ provider' = IF fallback = "none" THEN "base" ELSE fallback
              /\ warnings' = IF fallback = "none" THEN warnings + 1 ELSE warnings
              /\ detect' = [probes |-> detect.probes + 1, probe_ok |-> probe_ok,
                            init_ok |-> probe_ok
                                        /\ BaseProviderOp("initialize").outcome = "ok"]
    /\ UNCHANGED before
    /\ available_packages' = IF db.has_packages THEN db.packages ELSE <<>>
    /\ last_refresh_time' = db.last_refresh_time
    /\ phase' = "ready"
    /\ UNCHANGED <<db, now, running, pc, res, prev, loc, trace, status, pcall, parse>>

\* The host service finishes starting
ServerStart ==
    /\ ~running
    /\ running' = TRUE
    /\ UNCHANGED <<phase, provider, available_packages, last_refresh_time, db, now,
                   pc, res, prev, loc, trace, status, pcall, warnings, detect,
                   before, parse>>

\* Time passes
Tick ==
    /\ now < MaxNow
    /\ now' = now + 1
    /\ UNCHANGED <<phase, provider, available_packages, last_refresh_time, db,
                   running, pc, res, prev, loc, trace, status, pcall, warnings, detect,
                   before, parse>>

\* get_update_status that hands the list over and empties it
GetStatus_Consuming ==
    /\ status' = GetUpdateStatus
    /\ available_packages' = <<>>
    /\ UNCHANGED <<phase, provider, last_refresh_time, db, now,
                   running, pc, res, prev, loc, trace, pcall, warnings, detect,
                   before, parse>>

\* PackageDeploy.get_update_status
GetStatus ==
    /\ status' = GetUpdateStatus
    /\ UNCHANGED <<phase, provider, available_packages, last_refresh_time, db, now,
                   running, pc, res, prev, loc, trace, pcall, warnings, detect,
                   before, parse>>

\* A call of one operation of the BasePackageProvider built by initialize
NullProviderCall ==
    /\ provider = "base"
    /\ \E op \in ProviderOps :
          /\ pcall' = [op |-> op, outcome |-> BaseProviderOp(op).outcome]
          /\ trace' = trace \o BaseProviderOp(op).cmds
    /\ UNCHANGED <<phase, provider, available_packages, last_refresh_time, db, now,
                   running, pc, res, prev, loc, status, warnings, detect,
                   before, parse>>

----------------------------------------------------------------------------
(* The provider's parsers applied to an output *)

\* AptCliProvider.get_packages returns, its command having printed parse.text
GetPackagesReturns ==
    /\ parse.fn = "get_packages" /\ ~parse.done
    /\ parse' = [parse EXCEPT !.done = TRUE, !.result = ParseUpgradable(parse.text)]
    /\ UNCHANGED <<phase, provider, available_packages, last_refresh_time, db, now,
                   running, pc, res, prev, loc, trace, status, pcall, warnings, detect,
                   before>>

\* AptCliProvider.resolve_packages returns, its command having printed parse.text
ResolvePackagesReturns ==
    /\ parse.fn = "resolve_packages" /\ ~parse.done
    /\ parse' = [parse EXCEPT !.done = TRUE,
                              !.result = ResolveNames(parse.package_list, parse.text)]
    /\ UNCHANGED <<phase, provider, available_packages, last_refresh_time, db, now,
                   running, pc, res, prev, loc, trace, status, pcall, warnings, detect,
                   before>>

----------------------------------------------------------------------------
(* PackageDeploy.refresh *)

\* A call begins: the records of the calls before it are dropped
Begin(op, r) ==
    /\ prev' = LastCall
    /\ res' = [NoRes EXCEPT ![op] = r]
    /\ status' = NoStatus
    /\ pcall' = NoCall
    /\ before' = [packages |-> available_packages, db |-> db,
                  last_refresh_time |-> last_refresh_time, running |-> running]

\* refresh whose except clause resets the list
RefreshEnd_Zeroed(tr, failed, packages) ==
    [pc |-> "idle", res |-> "returned",
     packages |-> IF failed THEN <<>> ELSE packages,
     trace |-> (IF failed THEN Append(tr, LogExcEv) ELSE tr) \o <<SaveEv>>]

\* refresh ends: the except clause when failed, then _save_state
RefreshEnd(tr, failed, packages) ==
    [pc |-> "idle", res |-> "returned", packages |-> packages,
     trace |-> (IF failed THEN Append(tr, LogExcEv) ELSE tr) \o <<SaveEv>>]

\* refresh from its get_packages call on
RefreshFromList(tr) ==
    IF Raises("get_packages")
    THEN RefreshEnd(Append(tr, RaiseEv("get_packages")), TRUE, available_packages)
    ELSE [pc |-> "list_wait", res |-> "none", packages |-> available_packages,
          trace |-> Append(tr, AptCommand("get_packages", FALSE))]

\* refresh from its first statement on
RefreshFromCache(tr) ==
    IF running /\ NeedsIndexRefresh(RefreshForce, now, last_refresh_time)
    THEN IF Raises("refresh_packages")
         THEN RefreshEnd(Append(tr, RaiseEv("refresh_packages")), TRUE,
                         available_packages)
         ELSE [pc |-> "update_wait", res |-> "none", packages |-> available_packages,
               trace |-> Append(tr, AptCommand("refresh_packages", FALSE))]
    ELSE RefreshFromList(tr)

\* The state after refresh ran up to s
RefreshStep(s) ==
    /\ pc' = [pc EXCEPT !["refresh"] = s.pc]
    /\ trace' = s.trace
    /\ available_packages' = s.packages
    /\ db' = IF s.pc = "idle" THEN SaveState(s.packages) ELSE db

RefreshStart ==
    /\ phase = "ready" /\ Idle
    /\ LET s == RefreshFromCache(<<>>)
       IN  RefreshStep(s) /\ Begin("refresh", s.res)
    /\ loc' = NoLoc
    /\ UNCHANGED <<phase, provider, last_refresh_time, now, running, warnings, detect, parse>>

\* refresh that queries the list although its index refresh failed
RefreshUpdateDone_GoesOn ==
    /\ pc["refresh"] = "update_wait"
    /\ \E ok \in BOOLEAN :
          LET s == RefreshFromList(Append(trace, DoneEv("apt-get update", ok)))
          IN  /\ RefreshStep(s)
              /\ res' = [res EXCEPT !["refresh"] = s.res]
              /\ last_refresh_time' = LastRefreshAfter(ok)
    /\ UNCHANGED <<phase, provider, now, running, prev, loc, status, pcall,
                   warnings, detect, before, parse>>

\* "apt-get update" of refresh ends
RefreshUpdateDone ==
    /\ pc["refresh"] = "update_wait"
    /\ \E ok \in BOOLEAN :
          LET tr == Append(trace, DoneEv("apt-get update", ok))
              s == IF ok THEN RefreshFromList(tr)
                   ELSE RefreshEnd(tr, TRUE, available_packages)
          IN  /\ RefreshStep(s)
              /\ res' = [res EXCEPT !["refresh"] = s.res]
              /\ last_refresh_time' = LastRefreshAfter(ok)
    /\ UNCHANGED <<phase, provider, now, running, prev, loc, status, pcall,
                   warnings, detect,
                   before, parse>>

\* "apt list --upgradable" of refresh ends
RefreshListDone ==
    /\ pc["refresh"] = "list_wait"
    /\ \E ok \in BOOLEAN, out \in ListOutputs :
          LET tr == Append(trace, DoneEv("apt list --upgradable", ok))
              s == IF ok THEN RefreshEnd(tr, FALSE, ParseUpgradable(out))
                   ELSE RefreshEnd(tr, TRUE, available_packages)
          IN  /\ RefreshStep(s)
              /\ res' = [res EXCEPT !["refresh"] = s.res]
    /\ UNCHANGED <<phase, provider, last_refresh_time, now, running, prev, loc,
                   status, pcall, warnings, detect,
                   before, parse>>

----------------------------------------------------------------------------
(* PackageDeploy.update *)

\* update that goes on after a failed command as if it had succeeded
UpdateRaise_Swallow(tr) ==
    [pc |-> "idle", res |-> "true", done |-> TRUE,
     trace |-> tr \o <<SaveEv, NotifyEv("Package update finished...", TRUE)>>]

\* update raises server.error
UpdateRaise(tr) ==
    [pc |-> "idle", res |-> "error", trace |-> tr, done |-> FALSE]

\* update from its upgrade_system call on
UpdateFromUpgrade(tr) ==
    IF Raises("upgrade_system")
    THEN UpdateRaise(Append(tr, RaiseEv("upgrade_system")))
    ELSE [pc |-> "upgrade_wait", res |-> "none", done |-> FALSE,
          trace |-> Append(tr, AptCommand("upgrade_system", TRUE))]

\* update from its _update_package_cache call on
UpdateFromCache(tr) ==
    IF NeedsIndexRefresh(UpdateForce, now, last_refresh_time)
    THEN IF Raises("refresh_packages")
         THEN UpdateRaise(Append(tr, RaiseEv("refresh_packages")))
         ELSE [pc |-> "update_wait", res |-> "none", done |-> FALSE,
               trace |-> Append(tr, AptCommand("refresh_packages", TRUE))]
    ELSE UpdateFromUpgrade(tr)

\* update that returns True without clearing the list
UpdateFinish_NoClear(tr) ==
    [pc |-> "idle", res |-> "true", done |-> FALSE,
     trace |-> tr \o <<SaveEv, NotifyEv("Package update finished...", TRUE)>>]

\* update after upgrade_system returned: clear, save, notify, return True
UpdateFinish(tr) ==
    [pc |-> "idle", res |-> "true", done |-> TRUE,
     trace |-> tr \o <<SaveEv, NotifyEv("Package update finished...", TRUE)>>]

\* update from its first statement on
UpdateFromStart ==
    IF available_packages = <<>>
    THEN [pc |-> "idle", res |-> "false", trace |-> <<>>, done |-> FALSE]
    ELSE UpdateFromCache(<<NotifyEv("Updating packages...", FALSE)>>)

\* update that clears the list before its commands have run
UpdateStep_ClearEarly(s) ==
    /\ pc' = [pc EXCEPT !["update"] = s.pc]
    /\ trace' = s.trace
    /\ available_packages' = <<>>
    /\ db' = IF s.done THEN SaveState(<<>>) ELSE db

\* The state after update ran up to s
UpdateStep(s) ==
    /\ pc' = [pc EXCEPT !["update"] = s.pc]
    /\ trace' = s.trace
    /\ available_packages' = IF s.done THEN <<>> ELSE available_packages
    /\ db' = IF s.done THEN SaveState(<<>>) ELSE db

UpdateStart ==
    /\ phase = "ready" /\ Idle
    /\ LET s == UpdateFromStart
       IN  UpdateStep(s) /\ Begin("update", s.res)
    /\ loc' = NoLoc
    /\ UNCHANGED <<phase, provider, last_refresh_time, now, running, warnings, detect, parse>>

\* "apt-get update" of update ends
UpdateCacheDone ==
    /\ pc["update"] = "update_wait"
    /\ \E ok \in BOOLEAN :
          LET tr == Append(trace, DoneEv("apt-get update", ok))
              s == IF ok THEN UpdateFromUpgrade(tr) ELSE UpdateRaise(tr)
          IN  /\ UpdateStep(s)
              /\ res' = [res EXCEPT !["update"] = s.res]
              /\ last_refresh_time' = LastRefreshAfter(ok)
    /\ UNCHANGED <<phase, provider, now, running, prev, loc, status, pcall,
                   warnings, detect,
                   before, parse>>

\* "apt-get upgrade" of update ends
UpdateUpgradeDone ==
    /\ pc["update"] = "upgrade_wait"
    /\ \E ok \in BOOLEAN :
          LET tr == Append(trace, DoneEv("apt-get upgrade", ok))
              s == IF ok THEN UpdateFinish(tr) ELSE UpdateRaise(tr)
          IN  /\ UpdateStep(s)
              /\ res' = [res EXCEPT !["update"] = s.res]
    /\ UNCHANGED <<phase, provider, last_refresh_time, now, running, prev, loc,
                   status, pcall, warnings, detect,
                   before, parse>>

----------------------------------------------------------------------------
(* PackageDeploy.install_packages and AptCliProvider.install_packages *)

\* install_packages that swallows the failure
InstallRaise_Swallow(tr) ==
    [pc |-> "idle", res |-> "returned", trace |-> tr, tries |-> 0]

\* install_packages raises
InstallRaise(tr) ==
    [pc |-> "idle", res |-> "error", trace |-> tr, tries |-> 0]

\* The retries option with a default of one attempt
InstallAttempts_One(kwargs) == KwGet(kwargs, "retries", 1)

\* The retries option: kwargs.get('retries', 3)
InstallAttempts(kwargs) == KwGet(kwargs, "retries", DefaultRetries)

\* install_packages without the check for an empty resolved list
InstallFromResolved_NoEmptyCheck(tr, resolved, attempts, notify) ==
    IF RunAgain(0, attempts)
    THEN [pc |-> "install_wait", res |-> "none", tries |-> 1,
          trace |-> Append(tr, AptCommand("install_packages", notify))]
    ELSE [pc |-> "idle", res |-> "error", trace |-> tr, tries |-> 0]

\* AptCliProvider.install_packages once the names are resolved
InstallFromResolved(tr, resolved, attempts, notify) ==
    IF resolved = <<>>
    THEN [pc |-> "idle", res |-> "returned", tries |-> 0,
          trace |-> Append(tr, NotifyEv("No packages detected", FALSE))]
    ELSE IF RunAgain(0, attempts)
         THEN [pc |-> "install_wait", res |-> "none", tries |-> 1,
               trace |-> Append(tr, AptCommand("install_packages", notify))]
         ELSE InstallRaise(tr)

\* AptCliProvider.install_packages from its resolve_packages call on
InstallFromResolve(tr) ==
    [pc |-> "resolve_wait", res |-> "none", tries |-> 0,
     trace |-> tr \o <<NotifyEv("Resolving packages...", FALSE),
                       AptCommand("resolve_packages", FALSE)>>]

\* install_packages that leaves its index refresh to the 3600 s throttle
InstallFromStart_Throttled(notify) ==
    IF Raises("install_packages")
    THEN InstallRaise(<<RaiseEv("install_packages")>>)
    ELSE IF NeedsIndexRefresh(FALSE, now, last_refresh_time)
         THEN [pc |-> "update_wait", res |-> "none", tries |-> 0,
               trace |-> <<AptCommand("refresh_packages", notify)>>]
         ELSE InstallFromResolve(<<>>)

\* install_packages from its first statement on
InstallFromStart(notify) ==
    IF Raises("install_packages")
    THEN InstallRaise(<<RaiseEv("install_packages")>>)
    ELSE [pc |-> "update_wait", res |-> "none", tries |-> 0,
          trace |-> <<AptCommand("refresh_packages", notify)>>]

\* The state after install_packages ran up to s
InstallStep(s) ==
    /\ pc' = [pc EXCEPT !["install"] = s.pc]
    /\ trace' = s.trace

InstallStart ==
    /\ phase = "ready" /\ Idle
    /\ \E package_list \in PackageLists, kwargs \in KwargsSet :
          LET notify == KwGet(kwargs, "notify", FALSE)
              s == InstallFromStart(notify)
          IN  /\ InstallStep(s)
              /\ Begin("install", s.res)
              /\ loc' = [NoLoc EXCEPT !.package_list = package_list,
                                      !.kwargs = kwargs,
                                      !.attempts = InstallAttempts(kwargs),
                                      !.notify = notify]
    /\ UNCHANGED <<phase, provider, available_packages, last_refresh_time, db, now,
                   running, warnings, detect, parse>>

\* "apt-get update" of install_packages ends
InstallUpdateDone ==
    /\ pc["install"] = "update_wait"
    /\ \E ok \in BOOLEAN :
          LET tr == Append(trace, DoneEv("apt-get update", ok))
              s == IF ok THEN InstallFromResolve(tr) ELSE InstallRaise(tr)
          IN  /\ InstallStep(s)
              /\ res' = [res EXCEPT !["install"] = s.res]
              /\ last_refresh_time' = LastRefreshAfter(ok)
    /\ UNCHANGED <<phase, provider, available_packages, db, now, running, prev, loc,
                   status, pcall, warnings, detect,
                   before, parse>>

\* "apt-cache search" of install_packages ends
InstallResolveDone ==
    /\ pc["install"] = "resolve_wait"
    /\ \E ok \in BOOLEAN, ret \in SearchOutputs :
          LET tr == Append(trace, DoneEv("apt-cache search", ok))
              resolved == ResolveNames(loc.package_list, ret)
              s == IF ok
                   THEN InstallFromResolved(tr, resolved, loc.attempts, loc.notify)
                   ELSE InstallRaise(tr)
          IN  /\ InstallStep(s)
              /\ res' = [res EXCEPT !["install"] = s.res]
              /\ loc' = [loc EXCEPT !.resolved = IF ok THEN resolved ELSE <<>>,
                                    !.tries = s.tries]
    /\ UNCHANGED <<phase, provider, available_packages, last_refresh_time, db, now,
                   running, prev, status, pcall, warnings, detect,
                   before, parse>>

\* One "apt-get install" attempt ends
InstallAttemptDone ==
    /\ pc["install"] = "install_wait"
    /\ \E ok \in BOOLEAN :
          LET tr == Append(trace, DoneEv("apt-get install", ok))
              s == IF ok
                   THEN [pc |-> "idle", res |-> "returned", trace |-> tr,
                         tries |-> loc.tries]
                   ELSE IF RunAgain(loc.tries, loc.attempts)
                        THEN [pc |-> "install_wait", res |-> "none",
                              tries |-> loc.tries + 1,
                              trace |-> Append(tr,
                                          AptCommand("install_packages", loc.notify))]
                        ELSE [InstallRaise(tr) EXCEPT !.tries = loc.tries]
          IN  /\ InstallStep(s)
              /\ res' = [res EXCEPT !["install"] = s.res]
              /\ loc' = [loc EXCEPT !.tries = s.tries]
    /\ UNCHANGED <<phase, provider, available_packages, last_refresh_time, db, now,
                   running, prev, status, pcall, warnings, detect,
                   before, parse>>

----------------------------------------------------------------------------
(* PackageDeploy._update_package_cache, called on its own *)

CacheFromStart(force, notify) ==
    IF NeedsIndexRefresh(force, now, last_refresh_time)
    THEN IF Raises("refresh_packages")
         THEN [pc |-> "idle", res |-> "error",
               trace |-> <<RaiseEv("refresh_packages")>>]
         ELSE [pc |-> "update_wait", res |-> "none",
               trace |-> <<AptCommand("refresh_packages", notify)>>]
    ELSE [pc |-> "idle", res |-> "returned", trace |-> <<>>]

CacheStart ==
    /\ phase = "ready" /\ Idle
    /\ \E force \in BOOLEAN, notify \in BOOLEAN :
          LET s == CacheFromStart(force, notify)
          IN  /\ pc' = [pc EXCEPT !["cache"] = s.pc]
              /\ trace' = s.trace
              /\ Begin("cache", s.res)
              /\ loc' = [NoLoc EXCEPT !.force = force, !.notify = notify,
                                      !.curtime = now]
    /\ UNCHANGED <<phase, provider, available_packages, last_refresh_time, db, now,
                   running, warnings, detect, parse>>

\* "apt-get update" of _update_package_cache ends
CacheUpdateDone ==
    /\ pc["cache"] = "update_wait"
    /\ \E ok \in BOOLEAN :
          /\ pc' = [pc EXCEPT !["cache"] = "idle"]
          /\ res' = [res EXCEPT !["cache"] = IF ok THEN "returned" ELSE "error"]
          /\ trace' = Append(trace, DoneEv("apt-get update", ok))
          /\ last_refresh_time' = LastRefreshAfter(ok)
    /\ UNCHANGED <<phase, provider, available_packages, db, now, running, prev, loc,
                   status, pcall, warnings, detect,
                   before, parse>>

----------------------------------------------------------------------------

Next ==
    \/ Initialize
    \/ ServerStart
    \/ Tick
    \/ GetStatus
    \/ NullProviderCall
    \/ RefreshStart
    \/ RefreshUpdateDone
    \/ RefreshListDone
    \/ UpdateStart
    \/ UpdateCacheDone
    \/ UpdateUpgradeDone
    \/ InstallStart
    \/ InstallUpdateDone
    \/ InstallResolveDone
    \/ InstallAttemptDone
    \/ CacheStart
    \/ CacheUpdateDone

Spec == Init /\ [][Next]_vars

\* refresh is called while update is suspended on a command: the two calls
\* overlap and their events share the trace
RefreshJoin ==
    /\ phase = "ready"
    /\ pc["update"] # "idle" /\ pc["install"] = "idle" /\ pc["cache"] = "idle"
    /\ pc["refresh"] = "idle" /\ res["refresh"] = "none"
    /\ LET s == RefreshFromCache(trace)
       IN  RefreshStep(s) /\ res' = [res EXCEPT !["refresh"] = s.res]
    /\ UNCHANGED <<phase, provider, last_refresh_time, now, running, prev, loc,
                   status, pcall, warnings, detect, before, parse>>

\* update is called while refresh is suspended on a command
UpdateJoin ==
    /\ phase = "ready"
    /\ pc["refresh"] # "idle" /\ pc["install"] = "idle" /\ pc["cache"] = "idle"
    /\ pc["update"] = "idle" /\ res["update"] = "none"
    /\ LET s == UpdateFromStart
       IN  /\ UpdateStep([s EXCEPT !.trace = trace \o s.trace])
           /\ res' = [res EXCEPT !["update"] = s.res]
    /\ UNCHANGED <<phase, provider, last_refresh_time, now, running, prev, loc,
                   status, pcall, warnings, detect, before, parse>>

\* refresh and update called by callers that do not wait for each other
NextConc ==
    \/ Initialize
    \/ ServerStart
    \/ RefreshStart \/ RefreshUpdateDone \/ RefreshListDone
    \/ UpdateStart \/ UpdateCacheDone \/ UpdateUpgradeDone
    \/ RefreshJoin
    \/ UpdateJoin

SpecConc == Init /\ [][NextConc]_vars

\* The parsers alone, on every output of ParseInputs
InitParse == Constructed /\ parse \in ParseInputs
NextParse == GetPackagesReturns \/ ResolvePackagesReturns
SpecParse == InitParse /\ [][NextParse]_vars

----------------------------------------------------------------------------
(* Properties *)

\* The call now running, or the one that ended last, is a call of op
Current(op) == pc[op] # "idle" \/ res[op] # "none"

\* The outcomes, in order, of the commands what of tr that have ended
Outcomes(tr, what) == SelectSeq(tr, LAMBDA e : e.ev = "done" /\ e.what = what)

\* The attempts the caller of install_packages asked for
AskedAttempts == IF "retries" \in DOMAIN loc.kwargs THEN loc.kwargs.retries ELSE 3

\* C1: an update() whose index refresh and system upgrade both succeed returns
\* true and leaves available_packages empty; an update() called right after it
\* returns false with no command run and no notification sent.
C1_UpdateClearsThenNoop ==
    /\ ( /\ Current("update")
         /\ Ended(trace, "apt-get update", TRUE)
         /\ Ended(trace, "apt-get upgrade", TRUE) )
       => ( /\ res["update"] = "true"
            /\ pc["update"] = "idle"
            /\ before.packages # <<>>
            /\ available_packages = <<>> )
    /\ (prev = <<"update", "true">> /\ Current("update"))
       => ( /\ res["update"] = "false"
            /\ pc["update"] = "idle"
            /\ trace = <<>>
            /\ available_packages = <<>> )

\* C1 witness: the second update() has returned false right after a successful one
C1_Witness ==
    /\ prev = <<"update", "true">>
    /\ res["update"] = "false"
    /\ trace = <<>>

\* C2: refresh() never raises; when its index refresh or its list query fails it
\* still returns, available_packages is what it was before the call and the
\* state is saved with that list.
C2_RefreshSwallowsFailure ==
    /\ res["refresh"] \in {"none", "returned"}
    /\ (res["refresh"] = "returned" /\ Failed(trace))
       => ( /\ available_packages = before.packages
            /\ Saves(trace) = <<SaveEv>>
            /\ db.has_packages
            /\ db.packages = before.packages )

\* C2 witness: a refresh() whose "apt-get update" failed returned, with a
\* non-empty list kept
C2_Witness ==
    /\ res["refresh"] = "returned"
    /\ Ended(trace, "apt-get update", FALSE)
    /\ before.packages # <<>>
    /\ available_packages = before.packages
    /\ db.packages = before.packages

\* C3: when the index refresh or the system upgrade fails inside update(), the
\* call raises, available_packages keeps its contents, nothing is saved and no
\* completion notification is sent.
C3_UpdatePropagatesFailure ==
    (Current("update") /\ Failed(trace))
    => ( /\ res["update"] = "error"
         /\ pc["update"] = "idle"
         /\ available_packages # <<>>
         /\ available_packages = before.packages
         /\ Saves(trace) = <<>>
         /\ db = before.db
         /\ \A i \in 1..Len(trace) : ~(trace[i].ev = "notify" /\ trace[i].flag) )

\* C3 witness: update() raised because "apt-get upgrade" failed
C3_Witness ==
    /\ res["update"] = "error"
    /\ Ended(trace, "apt-get update", TRUE)
    /\ Ended(trace, "apt-get upgrade", FALSE)

\* C4 as stated: every step that takes available_packages from non-empty to
\* empty is the end of a successful update().
C4_OnlyUpdateClears ==
    [][ (available_packages # <<>> /\ available_packages' = <<>>)
        => (pc["update"] = "upgrade_wait" /\ res'["update"] = "true") ]_vars

\* C4 amended: a successful update() always leaves available_packages empty, and
\* every step that takes it from non-empty to empty is either the end of a
\* successful update() or the end of a refresh() whose list query succeeded and
\* reported no upgradable package.
C4_ClearedByUpdateOrEmptyList ==
    [][ /\ (pc["update"] = "upgrade_wait" /\ res'["update"] = "true")
           => available_packages' = <<>>
        /\ (available_packages # <<>> /\ available_packages' = <<>>)
           => \/ (pc["update"] = "upgrade_wait" /\ res'["update"] = "true")
              \/ ( /\ pc["refresh"] = "list_wait"
                   /\ res'["refresh"] = "returned"
                   /\ Ended(trace', "apt list --upgradable", TRUE) ) ]_vars

\* C4 witness: a refresh() that succeeded has replaced a non-empty list by the
\* empty one
C4_Witness ==
    /\ res["refresh"] = "returned"
    /\ ~Failed(trace)
    /\ before.packages # <<>>
    /\ available_packages = <<>>

\* C5 as stated: every operation of the BasePackageProvider, initialize
\* included, fails and runs no command.
C5_EveryNullOpFails ==
    pcall.op # "none" => (pcall.outcome = "error" /\ Cmds(trace) = <<>>)

\* C5 amended: refresh_packages, get_packages, install_packages and
\* upgrade_system of the BasePackageProvider fail at once; initialize returns
\* normally; none of the five runs a command.
C5_NullOpsButInitializeFail ==
    /\ pcall.op \in {"refresh_packages", "get_packages", "install_packages",
                     "upgrade_system"} => pcall.outcome = "error"
    /\ pcall.op = "initialize" => pcall.outcome = "ok"
    /\ pcall.op # "none" => Cmds(trace) = <<>>

\* C5 witness: install_packages was called on the BasePackageProvider and failed
C5_Witness ==
    /\ provider = "base"
    /\ pcall = [op |-> "install_packages", outcome |-> "error"]

\* C6: _update_package_cache asks the provider for an index refresh exactly when
\* it is forced or more than 3600 s have passed since last_refresh_time (not at
\* 3599 s, at 3601 s); with the APT provider that is one "apt-get update".
C6_ThrottleLaw ==
    Current("cache")
    => LET issued == CmdsOf(trace, "apt-get update")
           asked == issued # <<>>
                    \/ \E i \in 1..Len(trace) : trace[i] = RaiseEv("refresh_packages")
           elapsed == loc.curtime - before.last_refresh_time
       IN  /\ asked <=> (loc.force \/ elapsed > 3600)
           /\ (~loc.force /\ elapsed = 3599) => ~asked
           /\ (~loc.force /\ elapsed = 3601) => asked
           /\ provider = "apt" => (asked <=> Len(issued) = 1)
           /\ Len(issued) <= 1

\* C6 witness: a non-forced call 3599 s after last_refresh_time returned without
\* running a command
C6_Witness ==
    /\ provider = "apt"
    /\ res["cache"] = "returned"
    /\ ~loc.force
    /\ loc.curtime = before.last_refresh_time + 3599
    /\ trace = <<>>

\* C7: detection probes at most once and ends with the AptCliProvider exactly
\* when the probe and the provider's initialize() succeeded, otherwise with the
\* BasePackageProvider and exactly one warning.
C7_DetectionOneShot ==
    /\ detect.probes <= 1
    /\ phase = "ready"
       => ( /\ detect.probes = 1
            /\ provider \in {"apt", "base"}
            /\ (provider = "apt") <=> (detect.probe_ok /\ detect.init_ok)
            /\ provider = "apt" => warnings = 0
            /\ provider = "base" => warnings = 1 )

\* C7 witness: the probe failed and the BasePackageProvider is active with one
\* warning
C7_Witness ==
    /\ phase = "ready"
    /\ ~detect.probe_ok
    /\ provider = "base"
    /\ warnings = 1

\* C8: AptCliProvider.install_packages runs "apt-get update", then the search,
\* then the install, each only after the one before it succeeded; when no name
\* is resolved it sends "No packages detected", returns, and never installs.
C8_InstallOrder ==
    Current("install")
    => LET c == Cmds(trace)
       IN  /\ \A i \in 1..Len(c) :
                 c[i].what = (IF i = 1 THEN "apt-get update"
                              ELSE IF i = 2 THEN "apt-cache search"
                              ELSE "apt-get install")
           /\ Len(c) >= 1 => c[1].flag = loc.notify
           /\ Len(c) >= 2 => Ended(trace, "apt-get update", TRUE)
           /\ Len(c) >= 3 => Ended(trace, "apt-cache search", TRUE)
           /\ (Ended(trace, "apt-cache search", TRUE) /\ loc.resolved = <<>>)
              => ( /\ res["install"] = "returned"
                   /\ pc["install"] = "idle"
                   /\ trace[Len(trace)] = NotifyEv("No packages detected", FALSE)
                   /\ CmdsOf(trace, "apt-get install") = <<>> )

\* C8 witness: the search succeeded, resolved nothing, and install_packages
\* returned
C8_Witness ==
    /\ res["install"] = "returned"
    /\ Ended(trace, "apt-cache search", TRUE)
    /\ loc.resolved = <<>>
    /\ CmdsOf(trace, "apt-get install") = <<>>

\* C9: install_packages raises when its index refresh, its search or every
\* install attempt fails, and no later step runs after a failed one.
C9_InstallPropagatesFailure ==
    Current("install")
    => /\ Ended(trace, "apt-get update", FALSE)
          => (res["install"] = "error" /\ Len(Cmds(trace)) = 1)
       /\ Ended(trace, "apt-cache search", FALSE)
          => (res["install"] = "error" /\ Len(Cmds(trace)) = 2)
       /\ Len(SelectSeq(trace, LAMBDA e : e = DoneEv("apt-get install", FALSE)))
             >= AskedAttempts
          => res["install"] = "error"
       /\ (\E i \in 1..Len(trace) : trace[i].ev = "raise")
          => (res["install"] = "error" /\ Cmds(trace) = <<>>)
       /\ res["install"] = "error"
          => (pc["install"] = "idle" /\ Failed(trace)
              /\ trace[Len(trace)].ev \in {"done", "raise"})

\* C9 witness: the index refresh of install_packages failed and the call raised
\* without searching
C9_Witness ==
    /\ res["install"] = "error"
    /\ Ended(trace, "apt-get update", FALSE)
    /\ Len(Cmds(trace)) = 1

\* C10: with n attempts (3 when none is given) the install command runs until
\* its first success or until n runs have failed; the call returns iff one of
\* the first n runs succeeds and raises when all n fail.
C10_InstallRetry ==
    (Current("install") /\ CmdsOf(trace, "apt-get install") # <<>>)
    => LET n == AskedAttempts
           k == Len(CmdsOf(trace, "apt-get install"))
           d == Outcomes(trace, "apt-get install")
       IN  /\ k <= n
           /\ Len(d) \in {k - 1, k}
           /\ \A i \in 1..(Len(d) - 1) : ~d[i].flag
           /\ pc["install"] = "install_wait"
              <=> (Len(d) = k - 1 /\ res["install"] = "none")
           /\ res["install"] = "returned" <=> (Len(d) = k /\ d[k].flag)
           /\ res["install"] = "error" <=> (Len(d) = k /\ k = n /\ ~d[k].flag)

\* C10 witness: no retries option given, the install failed twice and succeeded
\* on its third run
C10_Witness ==
    /\ res["install"] = "returned"
    /\ loc.kwargs = NoKwargs
    /\ Len(CmdsOf(trace, "apt-get install")) = 3
    /\ Outcomes(trace, "apt-get install")
         = <<DoneEv("apt-get install", FALSE), DoneEv("apt-get install", FALSE),
             DoneEv("apt-get install", TRUE)>>


\* C11 as stated: for every number N >= 2 of header lines, get_packages returns
\* exactly the names of the entry lines, in order
C11_AnyHeaderCount ==
    (parse.fn = "get_packages" /\ parse.done /\ parse.headers >= 2)
        => parse.result = parse.names

\* C11: for an output of exactly two header lines followed by k entry lines,
\* with blank lines anywhere, get_packages returns exactly the k names before the
\* first '/', in order; an output of at most two non-blank lines yields the empty
\* list; every header line after the second is returned as one more name
C11_TwoHeaderLines ==
    (parse.fn = "get_packages" /\ parse.done) =>
        /\ parse.headers = 2 => parse.result = parse.names
        /\ parse.headers + Len(parse.names) <= 2 => parse.result = <<>>
        /\ parse.headers >= 2 =>
              /\ Len(parse.result) = Len(parse.names) + parse.headers - 2
              /\ SubSeq(parse.result, parse.headers - 1, Len(parse.result))
                    = parse.names

C11_Witness ==
    /\ parse.fn = "get_packages" /\ parse.done
    /\ parse.headers = 2
    /\ parse.text # UpgradableOutput(2, parse.names, "plain")
    /\ parse.result = <<PkgY, PkgZ>>

\* C12: resolve_packages returns the requested sequence filtered to the names
\* that are the first token of some line of the search output, in the requested
\* order, dropping every other requested name and adding none
C12_ResolveFiltersRequested ==
    (parse.fn = "resolve_packages" /\ parse.done) =>
        LET reported == {parse.names[i] : i \in 1..Len(parse.names)}
        IN  /\ parse.result = SelectSeq(parse.package_list, LAMBDA n : n \in reported)
            /\ \A i \in 1..Len(parse.result) :
                  \E j \in 1..Len(parse.package_list) :
                      parse.package_list[j] = parse.result[i]

C12_Witness ==
    /\ parse.fn = "resolve_packages" /\ parse.done
    /\ parse.package_list = <<PkgY, PkgX>>
    /\ parse.names = <<PkgX, PkgY>>
    /\ parse.result = <<PkgY, PkgX>>


\* C13: get_update_status can be called in every state; a call changes nothing
\* of the coordinator (list, provider, storage, refresh time, running
\* operations) and issues no command; its payload is the current list with
\* package_count its length, so a payload differs from the one returned before
\* only if the list changed in between
C13_StatusIsPureRead ==
    /\ [](ENABLED GetStatus)
    /\ [][(status'.valid /\ status' # status) =>
             /\ UNCHANGED <<phase, provider, available_packages, last_refresh_time,
                            db, pc, res, loc, trace>>
             /\ status'.package_list = available_packages
             /\ status'.package_count = Len(status'.package_list)
             /\ ~(status.valid /\ status.package_list = available_packages)]_vars

C13_Witness ==
    /\ status.valid
    /\ status.package_count = 2
    /\ status.package_list = available_packages
    /\ pc["refresh"] = "list_wait"


\* Positions in tr of the events equal to e
Positions(tr, e) == {i \in 1..Len(tr) : tr[i] = e}

\* C14: with the APT provider, refresh issues "apt-get update" exactly when the
\* host was running when it was called, whatever the time since the last index
\* refresh; when the host was not running it issues the list query first, and
\* when it has returned it has queried the list and saved the state once
C14_RefreshIndexIffRunning ==
    (Current("refresh") /\ provider = "apt") =>
        /\ (CmdsOf(trace, "apt-get update") # <<>>) <=> before.running
        /\ before.running => trace[1] = CmdEv("apt-get update", FALSE)
        /\ ~before.running => trace[1] = CmdEv("apt list --upgradable", FALSE)
        /\ res["refresh"] = "returned" =>
              /\ Len(Saves(trace)) = 1
              /\ ~before.running => Len(CmdsOf(trace, "apt list --upgradable")) = 1

\* A refresh called with the host running less than 3600 s after the last
\* index refresh has refreshed the index, queried the list and returned
C14_Witness ==
    /\ provider = "apt"
    /\ res["refresh"] = "returned"
    /\ before.running
    /\ before.last_refresh_time > 0
    /\ now < before.last_refresh_time + RefreshInterval
    /\ Len(CmdsOf(trace, "apt-get update")) = 1
    /\ Len(CmdsOf(trace, "apt list --upgradable")) = 1
    /\ Len(Saves(trace)) = 1


\* a is a prefix of b
IsPrefix(a, b) == Len(a) <= Len(b) /\ a = SubSeq(b, 1, Len(a))

\* What a successful update does, in order
UpdateEvents ==
    << NotifyEv("Updating packages...", FALSE),
       CmdEv("apt-get update", TRUE), DoneEv("apt-get update", TRUE),
       CmdEv("apt-get upgrade", TRUE), DoneEv("apt-get upgrade", TRUE),
       SaveEv,
       NotifyEv("Package update finished...", TRUE) >>

\* C15: with the APT provider an update called on a non-empty list sends the
\* "updating" notification, then refreshes the index whatever the time since
\* the last index refresh, then upgrades, clears the list, saves and sends the
\* completion notification, in that order; the upgrade is issued only after the
\* index refresh ended well, and is not issued when the index refresh failed
C15_UpdateOrder ==
    (Current("update") /\ provider = "apt" /\ before.packages # <<>>) =>
        /\ IsPrefix(SubSeq(UpdateEvents, 1, 2), trace)
        /\ IF Failed(trace)
           THEN /\ IsPrefix(SubSeq(trace, 1, Len(trace) - 1), UpdateEvents)
                /\ trace[Len(trace)].ev = "done"
                /\ res["update"] = "error"
           ELSE IsPrefix(trace, UpdateEvents)
        /\ CmdsOf(trace, "apt-get upgrade") # <<>> =>
              \E i \in Positions(trace, DoneEv("apt-get update", TRUE)) :
                  \A j \in Positions(trace, CmdEv("apt-get upgrade", TRUE)) : i < j
        /\ Ended(trace, "apt-get update", FALSE) =>
              CmdsOf(trace, "apt-get upgrade") = <<>>
        /\ IF res["update"] = "true"
           THEN /\ trace = UpdateEvents
                /\ available_packages = <<>>
                /\ db.packages = <<>>
           ELSE /\ available_packages = before.packages
                /\ db = before.db

C15_Witness ==
    /\ provider = "apt"
    /\ before.packages # <<>>
    /\ before.last_refresh_time > 0
    /\ now < before.last_refresh_time + RefreshInterval
    /\ res["update"] = "true"
    /\ trace = UpdateEvents


\* C16: in a refresh called with the host running, every list query is issued
\* after an index refresh that ended well; when the index refresh failed, no
\* list query is issued during that refresh, which logs the failure, saves and
\* returns
C16_ListAfterIndexRefresh ==
    (Current("refresh") /\ before.running) =>
        /\ \A j \in Positions(trace, CmdEv("apt list --upgradable", FALSE)) :
              \E i \in Positions(trace, DoneEv("apt-get update", TRUE)) : i < j
        /\ Ended(trace, "apt-get update", FALSE) =>
              /\ CmdsOf(trace, "apt list --upgradable") = <<>>
              /\ res["refresh"] = "returned"
              /\ available_packages = before.packages

C16_Witness ==
    /\ before.running
    /\ res["refresh"] = "returned"
    /\ Ended(trace, "apt-get update", FALSE)
    /\ CmdsOf(trace, "apt list --upgradable") = <<>>
    /\ before.packages # <<>>


\* The 'packages' field of the storage, as storage.get('packages', []) reads it
StoredPackages == IF db.has_packages THEN db.packages ELSE <<>>

\* C17: once initialize has run, at every suspension point of refresh, update
\* and install_packages and whenever no operation is running, the persisted
\* list equals available_packages, whether the calls succeeded or failed
C17_PersistedEqualsMemory ==
    phase = "ready" => StoredPackages = available_packages

C17_Witness ==
    /\ phase = "ready"
    /\ prev[1] \in {"update", "install"}
    /\ res["refresh"] = "returned"
    /\ available_packages # <<>>
    /\ available_packages # before.packages
    /\ db.has_packages /\ db.packages = available_packages


\* C18: during and after install_packages, however it ends, available_packages
\* and the storage are what they were when it was called and the provider does
\* not change; with the APT provider its first command is "apt-get update",
\* whatever the time since the last index refresh
C18_InstallLeavesListAlone ==
    /\ [](Current("install") =>
             /\ available_packages = before.packages
             /\ db = before.db
             /\ provider = "apt" =>
                   trace[1] = CmdEv("apt-get update", loc.notify))
    /\ [][Current("install") => provider' = provider]_vars

C18_Witness ==
    /\ provider = "apt"
    /\ res["install"] = "returned"
    /\ Ended(trace, "apt-get install", TRUE)
    /\ before.packages # <<>>
    /\ before.last_refresh_time > 0
    /\ now < before.last_refresh_time + RefreshInterval
    /\ trace[1] = CmdEv("apt-get update", loc.notify)


\* C19: with the BasePackageProvider no refresh, update or install_packages
\* changes available_packages from the loaded list or issues a command (none
\* ever waits on one); every refresh returns, every install_packages raises,
\* and update raises exactly when the list is not empty, returning False else
C19_DegradedMode ==
    /\ [](provider = "base" =>
             /\ Idle
             /\ Cmds(trace) = <<>>
             /\ available_packages = StoredPackages
             /\ res["refresh"] \in {"none", "returned"}
             /\ res["install"] \in {"none", "error"}
             /\ res["update"] \in {"none", IF available_packages # <<>>
                                           THEN "error" ELSE "false"})
    /\ [][provider = "base" =>
             /\ provider' = provider
             /\ available_packages' = available_packages]_vars

C19_Witness ==
    /\ provider = "base"
    /\ prev \in {<<"refresh", "returned">>, <<"install", "error">>}
    /\ res["update"] = "error"
    /\ available_packages # <<>>
    /\ Saves(trace) = <<>>


\* An overlapping refresh and update have both finished, update returning True
BothFinished ==
    /\ Idle
    /\ res["refresh"] = "returned"
    /\ res["update"] = "true"

\* C20 as stated: after an overlapping refresh and update, update having
\* returned True, the list and the persisted list are empty or come from a list
\* query issued after the system upgrade ended
C20_NeverStale ==
    BothFinished =>
        /\ db.packages = available_packages
        /\ available_packages # <<>> =>
              \E i \in Positions(trace, DoneEv("apt-get upgrade", TRUE)),
                 j \in Positions(trace, CmdEv("apt list --upgradable", FALSE)) : i < j

\* C20: after an overlapping refresh and update, update having returned True,
\* the list equals the persisted list and is empty unless the list query of the
\* refresh ended well after the system upgrade ended (after update emptied the
\* list); that query may have been issued before the upgrade ended
C20_EmptyUnlessListedAfterClear ==
    BothFinished =>
        /\ db.packages = available_packages
        /\ available_packages # <<>> =>
              \E i \in Positions(trace, DoneEv("apt-get upgrade", TRUE)),
                 j \in Positions(trace, DoneEv("apt list --upgradable", TRUE)) : i < j

\* The list query was issued before the upgrade ended and returned after it
C20_Witness ==
    /\ BothFinished
    /\ available_packages # <<>>
    /\ \E i \in Positions(trace, DoneEv("apt-get upgrade", TRUE)),
          j \in Positions(trace, CmdEv("apt list --upgradable", FALSE)),
          k \in Positions(trace, DoneEv("apt list --upgradable", TRUE)) :
              j < i /\ i < k


=============================================================================
